---- MODULE Spec2Model ----
(***************************************************************************)
(* Model of coding-challenge-utils: the graph searches of src/graph.rs     *)
(* (astar_search, bfs_search_all, count_paths, reconstruct_path,           *)
(* ScoredVertex) and the Cartesian helper of src/coord.rs.                 *)
(*                                                                         *)
(* The Vertex trait is implemented twice: "table" is an arbitrary finite   *)
(* graph given by a neighbor table and a distance-to-goal table, "grid" is *)
(* the obstacle-free grid whose neighbors() is Cartesian::neigh4 and whose *)
(* distance() is Cartesian::manhattan_distance.                            *)
(***************************************************************************)
EXTENDS Integers, Sequences, FiniteSets, Bags, TLC

VARIABLES
    impl,       \* which Vertex implementation the call runs on
    nbrs,       \* table impl: vertex -> Vec of neighbors
    dist,       \* table impl: vertex -> distance(vertex, goal)
    start,      \* argument start
    goal,       \* argument goal
    open,       \* astar_search: BinaryHeap<ScoredVertex>, a bag of entries
    closed,     \* astar_search: HashSet of vertices
    came_from,  \* astar_search: HashMap vertex -> vertex
    g_score,    \* astar_search: HashMap vertex -> usize
    f_score,    \* astar_search: HashMap vertex -> usize
    queue,      \* bfs_search_all: VecDeque of vertices
    prev,       \* bfs_search_all: HashMap vertex -> vertex
    nodes,      \* count_paths: the memo table, HashMap vertex -> usize
    stack,      \* count_paths: the frames of count_paths_internal
    a,          \* coord.rs: left operand of +
    b,          \* coord.rs: right operand of +
    build,      \* coord.rs: "debug" (overflow checks) or "release" (wrapping)
    sum_owned,  \* coord.rs: value of a + b
    sum_ref,    \* coord.rs: value of &a + &b
    pc,         \* position of the running call
    result,     \* value returned by the call
    expanded    \* history: how often neighbors() was called on each vertex

vars == <<impl, nbrs, dist, start, goal, open, closed, came_from, g_score,
          f_score, queue, prev, nodes, stack, a, b, build, sum_owned,
          sum_ref, pc, result, expanded>>

graphVars == <<impl, nbrs, dist, start, goal>>
astarVars == <<open, closed, came_from, g_score, f_score>>
bfsVars   == <<queue, prev>>
countVars == <<nodes, stack>>
coordVars == <<a, b, build, sum_owned, sum_ref>>

(***************************************************************************)
(* Bounds of the model.                                                    *)
(***************************************************************************)
NumVertices == 4
MaxEdges == 4
MaxDist == 1
GridMax == 3
MaxCalls == 2
MaxQueue == 6
CoordSpan == 1

(***************************************************************************)
(* usize::MAX, scaled to the largest integer of 32-bit model arithmetic.   *)
(***************************************************************************)
usize_MAX == 2147483647

\* i32::MAX
I32_MAX == 2147483647

\* The recursion depth of count_paths on an acyclic graph is at most the
\* number of vertices.
MaxDepth == NumVertices + 1

Vertices == 1..NumVertices

\* Option: None, or Some(v) wrapping the value v
None == <<>>
Some(v) == <<v>>
Diverges == "Diverges"
EmptyMap == <<>>

Range(s) == {s[i] : i \in DOMAIN s}

(***************************************************************************)
(* Vec of the elements of a set of integers, ascending.                    *)
(***************************************************************************)
RECURSIVE SortedSeq(_)
SortedSeq(S) ==
    IF S = {} THEN <<>>
    ELSE LET m == CHOOSE x \in S : \A y \in S : x <= y
         IN  <<m>> \o SortedSeq(S \ {m})

(***************************************************************************)
(* Vertices a search from the set S can generate: neighbors() is only ever *)
(* called on a vertex that an earlier call returned.                       *)
(***************************************************************************)
RECURSIVE ReachFrom(_, _)
ReachFrom(n, S) ==
    LET T == S \cup UNION {Range(n[v]) : v \in S}
    IN  IF T = S THEN S ELSE ReachFrom(n, T)

(***************************************************************************)
(* The graphs a call on vertex 1 can tell apart.  A graph is generated     *)
(* from the start vertex by neighbors(), so it has no vertex and no edge   *)
(* outside what the start reaches; its vertices are numbered in the order  *)
(* a level-by-level traversal first generates them.  TablesFrom(v, m, k)   *)
(* is the set of neighbor tables of the vertices v..NumVertices when the   *)
(* vertices 1..m are generated so far and k edges are left: vertex v has   *)
(* any set of neighbors among 1..m and the next few new vertices.          *)
(***************************************************************************)
NeighborChoices(m, k) ==
    {c \in [old : SUBSET (1..m), last : m..NumVertices] :
        Cardinality(c.old) + (c.last - m) <= k}

RECURSIVE TablesFrom(_, _, _)
TablesFrom(v, m, k) ==
    IF v > NumVertices THEN {<<>>}
    ELSE IF v > m THEN {[i \in 1..(NumVertices - v + 1) |-> <<>>]}
    ELSE UNION {
            {<<SortedSeq(c.old \cup ((m + 1)..c.last))>> \o t :
                t \in TablesFrom(v + 1, c.last,
                                 k - Cardinality(c.old) - (c.last - m))} :
            c \in NeighborChoices(m, k)}

Tables == TablesFrom(1, 1, MaxEdges)

\* The goal is a vertex of the graph or one vertex outside it.
Goals(n, s) ==
    {g \in Vertices : g <= Cardinality(ReachFrom(n, {s})) + 1}

\* distance(v, g) for every vertex v of the graph: any value up to top, and
\* 0 for g itself.  distance() is never called on a vertex outside the graph.
Distances(n, s, g, top) ==
    LET R == ReachFrom(n, {s}) \ {g}
    IN  {[v \in Vertices |-> IF v = g THEN 0 ELSE IF v \in R THEN d[v] ELSE top] :
            d \in [R -> 0..top]}

(***************************************************************************)
(* coord.rs                                                                *)
(***************************************************************************)
Cartesian(x, y) == [x |-> x, y |-> y]

\* Mutant: the first neighbor is the diagonal one.
neigh4_diagonal(c) ==
    << Cartesian(c.x - 1, c.y + 1),
       Cartesian(c.x, c.y + 1),
       Cartesian(c.x + 1, c.y),
       Cartesian(c.x, c.y - 1) >>

neigh4(c) ==
    << Cartesian(c.x - 1, c.y),
       Cartesian(c.x, c.y + 1),
       Cartesian(c.x + 1, c.y),
       Cartesian(c.x, c.y - 1) >>

abs(n) == IF n < 0 THEN 0 - n ELSE n

\* i32 - i32: a difference outside i32 panics in a build with overflow
\* checks ("debug") and wraps around modulo 2^32 in one without ("release").
i32_sub_fits(x, y) ==
    IF y >= 0 THEN x >= ((0 - I32_MAX) - 1) + y ELSE x <= I32_MAX + y

i32_wrapping_sub(x, y) ==
    IF i32_sub_fits(x, y) THEN x - y
    ELSE IF y >= 0
    THEN I32_MAX - ((y - (x - ((0 - I32_MAX) - 1))) - 1)
    ELSE ((0 - I32_MAX) - 1) + ((0 - (y + 1)) - (I32_MAX - x))

\* A usize result that may exceed the integers of the model:
\*   ext = 0: the value is carry * 2^31 + low,
\*   ext = 1: 2^64 - 2^31 + low (one i32::MIN cast to usize, plus low),
\*   ext = 2: 2^64 - 2^32 (two of them, added modulo 2^64).
DistancePanic == [panic |-> TRUE, ext |-> 0, carry |-> 0, low |-> 0]

DistanceValue(ext, carry, low) ==
    [panic |-> FALSE, ext |-> ext, carry |-> carry, low |-> low]

\* lines 46, 47: (x - y).abs() as usize.  abs() of i32::MIN overflows: it
\* panics with overflow checks and is i32::MIN without, which the cast
\* sign-extends.
axis_dist(x, y, bld) ==
    IF bld = "debug" /\ ~i32_sub_fits(x, y) THEN DistancePanic
    ELSE LET d == i32_wrapping_sub(x, y)
         IN  IF d = (0 - I32_MAX) - 1
             THEN IF bld = "debug" THEN DistancePanic ELSE DistanceValue(1, 0, 0)
             ELSE DistanceValue(0, 0, abs(d))

\* Mutant: the y distance is computed from the x coordinates.
manhattan_distance_xx(c, other, bld) ==
    LET x_dist == axis_dist(c.x, other.x, bld)
        y_dist == axis_dist(c.x, other.x, bld)
    IN  IF x_dist.panic \/ y_dist.panic THEN DistancePanic
        ELSE IF x_dist.ext + y_dist.ext = 2 THEN DistanceValue(2, 0, 0)
        ELSE IF x_dist.ext + y_dist.ext = 1
        THEN DistanceValue(1, 0, x_dist.low + y_dist.low)
        ELSE IF y_dist.low <= I32_MAX - x_dist.low
        THEN DistanceValue(0, 0, x_dist.low + y_dist.low)
        ELSE DistanceValue(0, 1, (y_dist.low - (I32_MAX - x_dist.low)) - 1)

\* lines 45-49.  The sum of line 48 is a usize sum: it exceeds usize only
\* for two sign-extended operands, and then the build has no overflow
\* checks and the sum wraps.
manhattan_distance(c, other, bld) ==
    LET x_dist == axis_dist(c.x, other.x, bld)
        y_dist == axis_dist(c.y, other.y, bld)
    IN  IF x_dist.panic \/ y_dist.panic THEN DistancePanic
        ELSE IF x_dist.ext + y_dist.ext = 2 THEN DistanceValue(2, 0, 0)
        ELSE IF x_dist.ext + y_dist.ext = 1
        THEN DistanceValue(1, 0, x_dist.low + y_dist.low)
        ELSE IF y_dist.low <= I32_MAX - x_dist.low
        THEN DistanceValue(0, 0, x_dist.low + y_dist.low)
        ELSE DistanceValue(0, 1, (y_dist.low - (I32_MAX - x_dist.low)) - 1)

\* The returned usize as a number of the model, for results below 2^31.
usize_number(r) ==
    IF ~r.panic /\ r.ext = 0 /\ r.carry = 0 THEN r.low ELSE usize_MAX

(***************************************************************************)
(* trait Vertex                                                            *)
(***************************************************************************)
neighbors(v) == IF impl = "grid" THEN neigh4(v) ELSE nbrs[v]

distance(v) ==
    IF impl = "grid" THEN usize_number(manhattan_distance(v, goal, build))
    ELSE dist[v]

(***************************************************************************)
(* ScoredVertex and its ordering                                           *)
(***************************************************************************)
ScoredVertex(vertex, score) == [vertex |-> vertex, score |-> score]

usize_cmp(m, n) == IF m < n THEN "Less" ELSE IF m = n THEN "Equal" ELSE "Greater"

\* Mutant: the natural order of the scores, not the reversed one.
ScoredVertex_cmp_natural(self, other) == usize_cmp(self.score, other.score)

ScoredVertex_cmp(self, other) == usize_cmp(other.score, self.score)

\* lines 34-36
ScoredVertex_partial_cmp(self, other) == Some(ScoredVertex_cmp(self, other))

\* lines 43-45
ScoredVertex_eq(self, other) == self.score = other.score

\* BinaryHeap::pop returns a greatest entry under Ord; which one among
\* entries that compare Equal is left to the heap.
HeapPop(heap) ==
    {e \in BagToSet(heap) :
        \A o \in BagToSet(heap) : ScoredVertex_cmp(e, o) # "Less"}

HeapPush(heap, e) == heap (+) SetToBag({e})

HeapRemove(heap, e) == heap (-) SetToBag({e})

(***************************************************************************)
(* reconstruct_path: the loop never ends when the predecessor chain comes  *)
(* back to a vertex already pushed; that outcome is Diverges.              *)
(***************************************************************************)
RECURSIVE reconstruct_loop(_, _, _)
reconstruct_loop(g, cf, path) ==
    IF g \notin DOMAIN cf THEN path
    ELSE LET p == cf[g]
         IN  IF p \in Range(path) THEN Diverges
             ELSE reconstruct_loop(p, cf, Append(path, p))

\* Mutant: the predecessor walk stops one step early, before the last vertex
\* is pushed.
reconstruct_path_short(g, cf) ==
    LET path == reconstruct_loop(g, cf, <<g>>)
    IN  IF path = Diverges \/ Len(path) < 2 THEN path
        ELSE SubSeq(path, 1, Len(path) - 1)

reconstruct_path(g, cf) == reconstruct_loop(g, cf, <<g>>)

MapInsert(m, k, v) == [x \in (DOMAIN m) \cup {k} |-> IF x = k THEN v ELSE m[x]]

(***************************************************************************)
(* astar_search, lines 130-145: the loop over the neighbors of current     *)
(* that are not closed.  st carries open, g_score, f_score, came_from and  *)
(* panic, the place of a panic of the loop body or NoPanic.                *)
(***************************************************************************)
NoPanic == "no"

\* usize + usize: a sum above usize::MAX panics in a build with overflow
\* checks ("debug") and wraps around in a build without them ("release").
usize_fits(x, y) == y <= usize_MAX - x

usize_wrapping_add(x, y) ==
    IF usize_fits(x, y) THEN x + y ELSE (y - (usize_MAX - x)) - 1

\* lines 136-137: g_score[&current.vertex] + 1, then + neighbor.distance(goal)
tentative(st, current, neighbor) ==
    IF current \notin DOMAIN st.g_score
    THEN [panic |-> "panic_index_136", gscore |-> 0, fscore |-> 0]
    ELSE IF build = "debug" /\ ~usize_fits(st.g_score[current], 1)
    THEN [panic |-> "panic_add_136", gscore |-> 0, fscore |-> 0]
    ELSE LET g == usize_wrapping_add(st.g_score[current], 1)
         IN  IF build = "debug" /\ ~usize_fits(g, distance(neighbor))
             THEN [panic |-> "panic_add_137", gscore |-> g, fscore |-> 0]
             ELSE [panic |-> NoPanic, gscore |-> g,
                   fscore |-> usize_wrapping_add(g, distance(neighbor))]

\* Mutant: the scores and the predecessor are overwritten without the test
\* that the tentative g-score is an improvement.
relax_always(st, current, neighbor) ==
    IF st.panic # NoPanic THEN st
    ELSE
    LET t == tentative(st, current, neighbor)
        tentative_gscore == t.gscore
        tentative_fscore == t.fscore
        pushed == HeapPush(st.open, ScoredVertex(neighbor, tentative_fscore))
    IN  IF t.panic # NoPanic THEN [st EXCEPT !.panic = t.panic]
        ELSE [st EXCEPT !.open = pushed,
                   !.g_score = MapInsert(st.g_score, neighbor, tentative_gscore),
                   !.f_score = MapInsert(st.f_score, neighbor, tentative_fscore),
                   !.came_from = MapInsert(st.came_from, neighbor, current)]

\* Mutant: the arguments of came_from.insert are swapped.
relax_swapped(st, current, neighbor) ==
    IF st.panic # NoPanic THEN st
    ELSE
    LET t == tentative(st, current, neighbor)
        tentative_gscore == t.gscore
        tentative_fscore == t.fscore
        pushed == HeapPush(st.open, ScoredVertex(neighbor, tentative_fscore))
        g1 == IF neighbor \in DOMAIN st.g_score THEN st.g_score
              ELSE MapInsert(st.g_score, neighbor, usize_MAX)
    IN  IF t.panic # NoPanic THEN [st EXCEPT !.panic = t.panic]
        ELSE IF tentative_gscore < g1[neighbor]
        THEN [st EXCEPT !.open = pushed,
                        !.g_score = MapInsert(g1, neighbor, tentative_gscore),
                        !.f_score = MapInsert(st.f_score, neighbor, tentative_fscore),
                        !.came_from = MapInsert(st.came_from, current, neighbor)]
        ELSE [st EXCEPT !.open = pushed, !.g_score = g1]

\* lines 136-144: the body of the loop for one neighbor
relax(st, current, neighbor) ==
    IF st.panic # NoPanic THEN st
    ELSE
    LET t == tentative(st, current, neighbor)
        tentative_gscore == t.gscore
        tentative_fscore == t.fscore
        pushed == HeapPush(st.open, ScoredVertex(neighbor, tentative_fscore))
        g1 == IF neighbor \in DOMAIN st.g_score THEN st.g_score
              ELSE MapInsert(st.g_score, neighbor, usize_MAX)
    IN  IF t.panic # NoPanic THEN [st EXCEPT !.panic = t.panic]
        ELSE IF tentative_gscore < g1[neighbor]
        THEN [st EXCEPT !.open = pushed,
                        !.g_score = MapInsert(g1, neighbor, tentative_gscore),
                        !.f_score = MapInsert(st.f_score, neighbor, tentative_fscore),
                        !.came_from = MapInsert(st.came_from, neighbor, current)]
        ELSE [st EXCEPT !.open = pushed, !.g_score = g1]

\* Mutant: closed neighbors are not filtered out.
not_closed_unfiltered(ns, cl) == ns

\* lines 130-134: .iter().filter(|&n| !closed.contains(n))
not_closed(ns, cl) == SelectSeq(ns, LAMBDA n : n \notin cl)

RECURSIVE relax_all(_, _, _, _)
relax_all(st, current, ns, i) ==
    IF i > Len(ns) THEN st
    ELSE relax_all(relax(st, current, ns[i]), current, ns, i + 1)

\* One more call of neighbors() on v; the count stops at MaxCalls.
Bump(h, v) ==
    IF v \notin DOMAIN h THEN MapInsert(h, v, 1)
    ELSE IF h[v] >= MaxCalls THEN h
    ELSE [h EXCEPT ![v] = @ + 1]

(***************************************************************************)
(* astar_search                                                            *)
(***************************************************************************)
\* Mutant: the g_score of start is not initialised.
AstarEntry_no_gscore(s) ==
    /\ open = SetToBag({ScoredVertex(s, usize_MAX)})
    /\ closed = {}
    /\ came_from = EmptyMap
    /\ g_score = EmptyMap
    /\ f_score = MapInsert(EmptyMap, s, usize_MAX)
    /\ pc = "astar"
    /\ result = None
    /\ expanded = EmptyMap

AstarEntry(s) ==
    /\ open = SetToBag({ScoredVertex(s, usize_MAX)})
    /\ closed = {}
    /\ came_from = EmptyMap
    /\ g_score = MapInsert(EmptyMap, s, 0)
    /\ f_score = MapInsert(EmptyMap, s, usize_MAX)
    /\ pc = "astar"
    /\ result = None
    /\ expanded = EmptyMap

\* lines 123-127: the popped entry is at distance 0 from goal
astar_found ==
    /\ pc = "astar"
    /\ open # EmptyBag
    /\ \E current \in HeapPop(open) :
        /\ distance(current.vertex) = 0
        /\ open' = HeapRemove(open, current)
        /\ LET path == reconstruct_path(current.vertex, came_from)
           IN  IF path = Diverges
               THEN pc' = "hang" /\ result' = result
               ELSE pc' = "done" /\ result' = Some(path)
    /\ UNCHANGED <<graphVars, closed, came_from, g_score, f_score, expanded,
                   bfsVars, countVars, coordVars>>

\* lines 123-145: the popped entry is not at distance 0; it is closed and
\* its neighbors are relaxed
astar_expand ==
    /\ pc = "astar"
    /\ open # EmptyBag
    /\ \E current \in HeapPop(open) :
        /\ distance(current.vertex) # 0
        /\ closed' = closed \cup {current.vertex}
        /\ expanded' = Bump(expanded, current.vertex)
        /\ LET st == relax_all([open |-> HeapRemove(open, current),
                                g_score |-> g_score, f_score |-> f_score,
                                came_from |-> came_from, panic |-> NoPanic],
                               current.vertex,
                               not_closed(neighbors(current.vertex), closed'), 1)
           IN  /\ open' = st.open
               /\ g_score' = st.g_score
               /\ f_score' = st.f_score
               /\ came_from' = st.came_from
               /\ pc' = IF st.panic = NoPanic THEN "astar" ELSE st.panic
    /\ UNCHANGED <<graphVars, result, bfsVars, countVars, coordVars>>

\* lines 122, 147: the frontier is empty
astar_exhausted ==
    /\ pc = "astar"
    /\ open = EmptyBag
    /\ pc' = "done"
    /\ result' = None
    /\ UNCHANGED <<graphVars, astarVars, expanded, bfsVars, countVars,
                   coordVars>>

AstarNext == astar_found \/ astar_expand \/ astar_exhausted

(***************************************************************************)
(* bfs_search_all                                                          *)
(***************************************************************************)
\* Mutant: the current vertex is queued again instead of the neighbor.
bfs_visit_requeue(st, current, n) ==
    [prev |-> MapInsert(st.prev, n, current), queue |-> Append(st.queue, current)]

\* Mutant: the arguments of prev.insert are swapped.
bfs_visit_swapped(st, current, n) ==
    [prev |-> MapInsert(st.prev, current, n), queue |-> Append(st.queue, n)]

\* Mutant: the predecessor is recorded but the neighbor is not queued.
bfs_visit_unqueued(st, current, n) ==
    [prev |-> MapInsert(st.prev, n, current), queue |-> st.queue]

\* Mutant: a neighbor that already has a predecessor is not visited again.
bfs_visit_once(st, current, n) ==
    IF n \in DOMAIN st.prev THEN st
    ELSE [prev |-> MapInsert(st.prev, n, current), queue |-> Append(st.queue, n)]

\* lines 92-93: the closure run on each neighbor n of current
bfs_visit(st, current, n) ==
    [prev |-> MapInsert(st.prev, n, current), queue |-> Append(st.queue, n)]

RECURSIVE bfs_for_each(_, _, _, _)
bfs_for_each(st, current, ns, i) ==
    IF i > Len(ns) THEN st
    ELSE bfs_for_each(bfs_visit(st, current, ns[i]), current, ns, i + 1)

\* lines 80-84
BfsEntry(s) ==
    /\ queue = <<s>>
    /\ prev = EmptyMap
    /\ result = <<>>
    /\ pc = "bfs"
    /\ expanded = EmptyMap

\* lines 85-89: the head of the queue is at distance 0 from goal
bfs_found ==
    /\ pc = "bfs"
    /\ Len(queue) > 0
    /\ LET current == Head(queue)
       IN  /\ distance(current) = 0
           /\ queue' = Tail(queue)
           /\ LET path == reconstruct_path(current, prev)
              IN  IF path = Diverges
                  THEN pc' = "hang" /\ result' = result
                  ELSE pc' = "bfs" /\ result' = Append(result, path)
    /\ UNCHANGED <<graphVars, prev, expanded, astarVars, countVars, coordVars>>

\* lines 85-86, 90-95: the head of the queue is expanded.  The queue of a
\* search that never ends is cut off at MaxQueue.
bfs_expand ==
    /\ pc = "bfs"
    /\ Len(queue) > 0
    /\ Len(queue) <= MaxQueue
    /\ LET current == Head(queue)
           st == bfs_for_each([prev |-> prev, queue |-> Tail(queue)], current,
                              neighbors(current), 1)
       IN  /\ distance(current) # 0
           /\ prev' = st.prev
           /\ queue' = st.queue
           /\ expanded' = Bump(expanded, current)
    /\ UNCHANGED <<graphVars, pc, result, astarVars, countVars, coordVars>>

\* lines 85, 98: the queue is empty
bfs_return ==
    /\ pc = "bfs"
    /\ Len(queue) = 0
    /\ pc' = "done"
    /\ UNCHANGED <<graphVars, queue, prev, result, expanded, astarVars,
                   countVars, coordVars>>

BfsNext == bfs_found \/ bfs_expand \/ bfs_return

(***************************************************************************)
(* count_paths and count_paths_internal.  stack holds one frame for each   *)
(* active call of count_paths_internal, the innermost last.                *)
(***************************************************************************)
Frame(node) == [node |-> node, at |-> "enter", ns |-> <<>>, i |-> 1, paths |-> 0]

\* Mutant: a vertex without neighbors counts no path.
first_paths_zero(ns) == 0

\* lines 164-171: paths before the loop over the neighbors
first_paths(ns) == IF Len(ns) > 0 THEN 0 ELSE 1

\* The callee returns value: the caller adds it to paths (line 167), and
\* the outermost call returns it from count_paths (line 155).
CountReturn(rest, value) ==
    IF rest = <<>>
    THEN /\ stack' = rest
         /\ pc' = "done"
         /\ result' = value
    ELSE /\ stack' = [rest EXCEPT ![Len(rest)].paths = @ + value,
                                  ![Len(rest)].i = @ + 1]
         /\ pc' = pc
         /\ result' = result

\* line 155
CountEntry(node) ==
    /\ nodes = EmptyMap
    /\ stack = <<Frame(node)>>
    /\ pc = "count"
    /\ result = None
    /\ expanded = EmptyMap

Top == stack[Len(stack)]

Rest == SubSeq(stack, 1, Len(stack) - 1)

\* lines 162, 174-176: the vertex is in the memo table
count_hit ==
    /\ pc = "count"
    /\ Top.at = "enter"
    /\ Top.node \in DOMAIN nodes
    /\ CountReturn(Rest, nodes[Top.node])
    /\ UNCHANGED <<graphVars, nodes, expanded, astarVars, bfsVars, coordVars>>

\* Mutant: the vertex is put in the memo table, with count 0, before its
\* neighbors are counted.
count_miss_marked ==
    /\ pc = "count"
    /\ Top.at = "enter"
    /\ Top.node \notin DOMAIN nodes
    /\ LET ns == neighbors(Top.node)
       IN  stack' = [stack EXCEPT ![Len(stack)] =
                        [node |-> Top.node, at |-> "loop", ns |-> ns, i |-> 1,
                         paths |-> first_paths(ns)]]
    /\ nodes' = MapInsert(nodes, Top.node, 0)
    /\ expanded' = Bump(expanded, Top.node)
    /\ UNCHANGED <<graphVars, pc, result, astarVars, bfsVars, coordVars>>

\* lines 162-165, 169-171: the vertex is not in the memo table
count_miss ==
    /\ pc = "count"
    /\ Top.at = "enter"
    /\ Top.node \notin DOMAIN nodes
    /\ LET ns == neighbors(Top.node)
       IN  stack' = [stack EXCEPT ![Len(stack)] =
                        [node |-> Top.node, at |-> "loop", ns |-> ns, i |-> 1,
                         paths |-> first_paths(ns)]]
    /\ expanded' = Bump(expanded, Top.node)
    /\ UNCHANGED <<graphVars, nodes, pc, result, astarVars, bfsVars, coordVars>>

\* lines 166-167: the recursive call on the next neighbor.  The recursion
\* of a call that never returns is cut off at MaxDepth frames.
count_recurse ==
    /\ pc = "count"
    /\ Top.at = "loop"
    /\ Top.i <= Len(Top.ns)
    /\ Len(stack) < MaxDepth
    /\ stack' = Append(stack, Frame(Top.ns[Top.i]))
    /\ UNCHANGED <<graphVars, nodes, pc, result, expanded, astarVars, bfsVars,
                   coordVars>>

\* Mutant: the count is returned without being stored in the memo table.
count_leave_unmemoized ==
    /\ pc = "count"
    /\ Top.at = "loop"
    /\ Top.i > Len(Top.ns)
    /\ nodes' = nodes
    /\ CountReturn(Rest, Top.paths)
    /\ UNCHANGED <<graphVars, expanded, astarVars, bfsVars, coordVars>>

\* lines 172-173: the loop is over, the count is stored and returned
count_leave ==
    /\ pc = "count"
    /\ Top.at = "loop"
    /\ Top.i > Len(Top.ns)
    /\ nodes' = MapInsert(nodes, Top.node, Top.paths)
    /\ CountReturn(Rest, Top.paths)
    /\ UNCHANGED <<graphVars, expanded, astarVars, bfsVars, coordVars>>

CountNext == count_hit \/ count_miss \/ count_recurse \/ count_leave

(***************************************************************************)
(* coord.rs: impl Add for Cartesian and for &Cartesian.  i32 + panics on   *)
(* overflow in a build with overflow checks ("debug") and wraps around in  *)
(* a build without them ("release").                                       *)
(***************************************************************************)
I32_MIN == 0 - I32_MAX - 1

i32_fits(x, y) == IF y >= 0 THEN x <= I32_MAX - y ELSE x >= I32_MIN - y

i32_wrapping_add(x, y) ==
    IF i32_fits(x, y) THEN x + y
    ELSE IF y >= 0 THEN ((x - I32_MAX) + (y - I32_MAX)) - 2
    ELSE ((x + I32_MAX) + (y + I32_MAX)) + 2

Panic == [panic |-> TRUE, x |-> 0, y |-> 0]

Value(c) == [panic |-> FALSE, x |-> c.x, y |-> c.y]

\* Mutant: y is computed from self.x.
Cartesian_add_ref_xy(self, other, bld) ==
    IF bld = "debug" /\ ~(i32_fits(self.x, other.x) /\ i32_fits(self.x, other.y))
    THEN Panic
    ELSE Value(Cartesian(i32_wrapping_add(self.x, other.x),
                         i32_wrapping_add(self.x, other.y)))

\* lines 79-88: impl Add for &Cartesian
Cartesian_add_ref(self, other, bld) ==
    IF bld = "debug" /\ ~(i32_fits(self.x, other.x) /\ i32_fits(self.y, other.y))
    THEN Panic
    ELSE Value(Cartesian(i32_wrapping_add(self.x, other.x),
                         i32_wrapping_add(self.y, other.y)))

\* lines 68-77: impl Add for Cartesian
Cartesian_add(self, other, bld) ==
    IF bld = "debug" /\ ~(i32_fits(self.x, other.x) /\ i32_fits(self.y, other.y))
    THEN Panic
    ELSE Value(Cartesian(i32_wrapping_add(self.x, other.x),
                         i32_wrapping_add(self.y, other.y)))

\* &a + &b
add_ref ==
    /\ pc = "add"
    /\ sum_ref = None
    /\ sum_ref' = Some(Cartesian_add_ref(a, b, build))
    /\ pc' = IF sum_owned # None THEN "done" ELSE "add"
    /\ UNCHANGED <<graphVars, astarVars, bfsVars, countVars, a, b, build,
                   sum_owned, result, expanded>>

\* a + b
add_owned ==
    /\ pc = "add"
    /\ sum_owned = None
    /\ sum_owned' = Some(Cartesian_add(a, b, build))
    /\ pc' = IF sum_ref # None THEN "done" ELSE "add"
    /\ UNCHANGED <<graphVars, astarVars, bfsVars, countVars, a, b, build,
                   sum_ref, result, expanded>>

CoordNext == add_ref \/ add_owned

\* a.manhattan_distance(&b)
distance_call ==
    /\ pc = "distance"
    /\ result' = Some(manhattan_distance(a, b, build))
    /\ pc' = "done"
    /\ UNCHANGED <<graphVars, astarVars, bfsVars, countVars, a, b, build,
                   sum_owned, sum_ref, expanded>>

DistanceNext == distance_call

(***************************************************************************)
(* Values of the variables a call does not use.                            *)
(***************************************************************************)
NoAstar ==
    /\ open = EmptyBag /\ closed = {} /\ came_from = EmptyMap
    /\ g_score = EmptyMap /\ f_score = EmptyMap

NoBfs == queue = <<>> /\ prev = EmptyMap

NoCount == nodes = EmptyMap /\ stack = <<>>

NoCoord ==
    /\ a = Cartesian(0, 0) /\ b = Cartesian(0, 0) /\ build = "debug"
    /\ sum_owned = None /\ sum_ref = None

NoTable == nbrs = EmptyMap /\ dist = EmptyMap

(***************************************************************************)
(* astar_search on every table graph of the bounds.  Vertices are numbered *)
(* from the start vertex; the heuristic is any table of distances.         *)
(***************************************************************************)
AstarInit ==
    /\ impl = "table"
    /\ start = 1
    /\ nbrs \in Tables
    /\ goal \in Goals(nbrs, start)
    /\ dist \in Distances(nbrs, start, goal, MaxDist)
    /\ AstarEntry(start)
    /\ NoBfs /\ NoCount /\ NoCoord

SpecAstar == AstarInit /\ [][AstarNext]_vars

(***************************************************************************)
(* Graph notions the claims are stated in.                                 *)
(***************************************************************************)
Successors(S) == UNION {Range(nbrs[v]) : v \in S}

Reachable == ReachFrom(nbrs, {start})

Unreachable == 0 - 1

\* Number of edges of a shortest path from the set S to t, level by level.
RECURSIVE LevelDistance(_, _, _)
LevelDistance(S, t, k) ==
    IF t \in S THEN k
    ELSE LET T == S \cup Successors(S)
         IN  IF T = S THEN Unreachable ELSE LevelDistance(T, t, k + 1)

TrueDistance(s, t) == LevelDistance({s}, t, 0)

ZeroReachable == \E v \in Reachable : dist[v] = 0

\* A cycle (a self-loop included) among the vertices the call can generate.
Cyclic == \E v \in Reachable : v \in ReachFrom(nbrs, Range(nbrs[v]))

\* distance() is 0 exactly at goal, never overestimates the number of edges
\* left to goal, and drops by at most 1 along an edge.
HeuristicContract ==
    /\ \A v \in Vertices : dist[v] = 0 <=> v = goal
    /\ \A v \in Reachable :
          TrueDistance(v, goal) # Unreachable => dist[v] <= TrueDistance(v, goal)
    /\ \A v \in Reachable : \A w \in Range(nbrs[v]) : dist[v] <= 1 + dist[w]

IsPathOfGraph(p) ==
    \A i \in 1..(Len(p) - 1) : p[i] \in Range(neighbors(p[i + 1]))

AstarPathGoalToStart ==
    (pc = "done" /\ result # None) =>
        LET p == result[1]
        IN  /\ distance(p[1]) = 0
            /\ p[Len(p)] = start
            /\ IsPathOfGraph(p)

AstarPathWitness ==
    /\ pc = "done"
    /\ result # None
    /\ Len(result[1]) >= 3
    /\ Cyclic

(***************************************************************************)
(* C4: on every finite graph, cycles and self-loops included, in which no  *)
(* vertex at distance 0 from goal is reachable from start, astar_search    *)
(* terminates: the frontier becomes empty and the result is None.          *)
(***************************************************************************)
\* Termination is shown by a rank that every loop iteration lowers in the
\* lexicographic order of pairs of naturals: the vertices not yet closed,
\* then the frontier entries of closed vertices (plus one while running).
RECURSIVE BagCount(_, _)
BagCount(bag, S) ==
    IF S = {} THEN 0
    ELSE LET e == CHOOSE x \in S : TRUE
         IN  bag[e] + BagCount(bag, S \ {e})

StaleEntries == BagCount(open, {e \in BagToSet(open) : e.vertex \in closed})

AstarRank ==
    << Cardinality(Reachable \ closed),
       StaleEntries + (IF pc = "astar" THEN 1 ELSE 0) >>

LexLess(x, y) == x[1] < y[1] \/ (x[1] = y[1] /\ x[2] < y[2])

\* The enabling condition of AstarNext while the loop runs: the frontier is
\* empty (line 147) or the heap has an entry to pop (line 123).
AstarCanStep == open = EmptyBag \/ HeapPop(open) # {}

AstarTerminatesWithNone ==
    /\ [][(~ZeroReachable) => LexLess(AstarRank', AstarRank)]_vars
    /\ []((~ZeroReachable) =>
            /\ pc \in {"astar", "done"}
            /\ pc = "astar" => AstarCanStep
            /\ pc = "done" => (open = EmptyBag /\ result = None))

AstarNoneWitness ==
    /\ ~ZeroReachable
    /\ Cyclic
    /\ pc = "done"
    /\ result = None
    /\ closed = Reachable
    /\ Cardinality(closed) >= 3

(***************************************************************************)
(* C10: once a vertex is in the closed set it is never expanded again:     *)
(* neighbors() is generated at most once per vertex during one search.     *)
(***************************************************************************)
AstarExpandsEachVertexOnce ==
    \A v \in DOMAIN expanded : expanded[v] <= 1

(***************************************************************************)
(* C12: the predecessor map built by astar_search never contains a cycle,  *)
(* on cyclic graphs and graphs with self-loops too: at every step each     *)
(* entry came_from[v] = u has u closed and g_score[v] = g_score[u] + 1, so *)
(* the walk over the predecessors from any vertex lowers g_score at every  *)
(* step and reconstruct_path ends at start.                                *)
(***************************************************************************)
AstarPredecessorsAcyclic ==
    /\ pc # "hang"
    /\ \A v \in DOMAIN came_from :
          LET u == came_from[v]
          IN  /\ u \in closed
              /\ u \in DOMAIN g_score
              /\ v \in DOMAIN g_score
              /\ g_score[v] = g_score[u] + 1
              /\ LET p == reconstruct_path(v, came_from)
                 IN  /\ p # Diverges
                     /\ p[Len(p)] = start
                     /\ \A i \in 1..(Len(p) - 1) :
                           g_score[p[i + 1]] < g_score[p[i]]

\* A search on a graph with a self-loop and an edge back into start that
\* has given every other vertex a predecessor.
AstarPredecessorsWitness ==
    /\ \E v \in Reachable : v \in Range(nbrs[v])
    /\ \E v \in Reachable \ {start} : start \in Range(nbrs[v])
    /\ Cardinality(DOMAIN came_from) >= 2
    /\ \E v \in DOMAIN came_from : came_from[v] # start

(***************************************************************************)
(* C13: start is never relaxed via an edge, edges leading back into start  *)
(* included: throughout the search start has no came_from entry,           *)
(* g_score[start] stays 0, f_score[start] stays the sentinel usize::MAX,   *)
(* the only frontier entry for start is the initial one, and start is the  *)
(* first entry popped.                                                     *)
(***************************************************************************)
AstarStartNeverRelaxed ==
    /\ [](/\ start \notin DOMAIN came_from
          /\ start \in DOMAIN g_score /\ g_score[start] = 0
          /\ start \in DOMAIN f_score /\ f_score[start] = usize_MAX
          /\ \A e \in BagToSet(open) :
                e.vertex = start =>
                    /\ e.score = usize_MAX
                    /\ open = SetToBag({e})
                    /\ closed = {}
          /\ closed # {} => start \in closed)
    /\ [][(closed = {} /\ expanded = EmptyMap) =>
            \/ closed' = {start} /\ DOMAIN expanded' = {start}
            \/ result' = Some(<<start>>)]_vars

\* Vertices with an edge back into start have been expanded.
AstarStartWitness ==
    /\ start \in Range(nbrs[start])
    /\ \E v \in closed \ {start} : start \in Range(nbrs[v])
    /\ Cardinality(closed) >= 3

(***************************************************************************)
(* C15: every pop of the frontier returns an entry whose score is less     *)
(* than or equal to the score of every entry that remains, because         *)
(* ScoredVertex orders e below o exactly when e.score > o.score and        *)
(* compares equal exactly when the scores are equal, whatever the          *)
(* vertices.                                                               *)
(***************************************************************************)
\* The step pops entry e: e leaves the frontier, and either its vertex is at
\* distance 0 and the call ends, or its vertex is closed and expanded.
AstarPops(e) ==
    /\ e \in BagToSet(open)
    /\ HeapRemove(open, e) \sqsubseteq open'
    /\ \/ distance(e.vertex) = 0 /\ pc' # "astar" /\ open' = HeapRemove(open, e)
       \/ distance(e.vertex) # 0 /\ closed' = closed \cup {e.vertex}

AstarPopsLowestScore ==
    /\ [](\A e \in BagToSet(open) : \A o \in BagToSet(open) :
            /\ ScoredVertex_cmp(e, o) = "Less" <=> e.score > o.score
            /\ ScoredVertex_cmp(e, o) = "Equal" <=> e.score = o.score
            /\ ScoredVertex_eq(e, o) <=> e.score = o.score
            /\ ScoredVertex_partial_cmp(e, o) = Some(ScoredVertex_cmp(e, o)))
    /\ [][(pc = "astar" /\ open # EmptyBag) =>
            /\ \E e \in BagToSet(open) : AstarPops(e)
            /\ \A e \in BagToSet(open) :
                  AstarPops(e) =>
                      \A o \in BagToSet(HeapRemove(open, e)) :
                          e.score <= o.score]_vars

\* After two pops the frontier holds entries of different vertices with the
\* same score and an entry with another score.
AstarPopWitness ==
    /\ pc = "astar"
    /\ Cardinality(closed) >= 2
    /\ \E e \in BagToSet(open) : \E o \in BagToSet(open) :
          /\ e.vertex # o.vertex
          /\ e.score = o.score
          /\ \E p \in BagToSet(open) : p.score # e.score

(***************************************************************************)
(* C16: g_score, f_score and came_from of a neighbor are updated together  *)
(* and only when the tentative g-score is strictly smaller than the        *)
(* recorded one (usize::MAX when there is none); so a g_score never        *)
(* increases and never changes once its vertex is closed, and every vertex *)
(* other than start that has an f_score has f_score = g_score + distance.  *)
(***************************************************************************)
MapGet(m, k, default) == IF k \in DOMAIN m THEN m[k] ELSE default

AstarScoresUpdatedTogether ==
    /\ [](\A v \in (DOMAIN f_score) \ {start} :
            /\ v \in DOMAIN g_score
            /\ f_score[v] = g_score[v] + distance(v))
    /\ [][\A v \in (DOMAIN g_score') \cup (DOMAIN g_score) :
            LET old == MapGet(g_score, v, usize_MAX)
                new == MapGet(g_score', v, usize_MAX)
            IN  /\ new <= old
                /\ v \in closed => new = old
                /\ new < old =>
                      /\ f_score'[v] = new + distance(v)
                      /\ came_from'[v] \in closed'
                /\ new = old =>
                      /\ MapGet(f_score', v, None) = MapGet(f_score, v, None)
                      /\ MapGet(came_from', v, None) = MapGet(came_from, v, None)]_vars

\* A tentative g-score that was no improvement was pushed and not recorded.
AstarRejectedWitness ==
    /\ Cardinality(closed) >= 2
    /\ \E e \in BagToSet(open) :
          /\ e.vertex \in DOMAIN f_score
          /\ e.vertex \notin closed
          /\ e.score > f_score[e.vertex]

(***************************************************************************)
(* astar_search with distances of 1 and of usize::MAX - 1, in a build with *)
(* overflow checks and in one without.                                     *)
(***************************************************************************)
FarDistances(n, s, g) ==
    LET R == ReachFrom(n, {s}) \ {g}
    IN  {[v \in Vertices |-> IF v = g THEN 0 ELSE IF v \in R THEN d[v] ELSE 1] :
            d \in [R -> {1, usize_MAX - 1}]}

FarInit ==
    /\ impl = "table"
    /\ start = 1
    /\ nbrs \in Tables
    /\ goal \in Goals(nbrs, start)
    /\ dist \in FarDistances(nbrs, start, goal)
    /\ AstarEntry(start)
    /\ a = Cartesian(0, 0) /\ b = Cartesian(0, 0)
    /\ build \in {"debug", "release"}
    /\ sum_owned = None /\ sum_ref = None
    /\ NoBfs /\ NoCount

SpecAstarFar == FarInit /\ [][AstarNext]_vars

AstarPanics == {"panic_index_136", "panic_add_136", "panic_add_137"}

FrontierHasRealCost ==
    \A e \in BagToSet(open) :
        /\ e.vertex \in DOMAIN g_score
        /\ g_score[e.vertex] < usize_MAX

(***************************************************************************)
(* C18, as stated: astar_search never fails on a lookup and never          *)
(* overflows, on any finite graph: every vertex in the frontier has a      *)
(* g_score entry that is a real cost, never the sentinel usize::MAX.       *)
(***************************************************************************)
AstarNeverFailsOrOverflows ==
    /\ pc \notin AstarPanics
    /\ FrontierHasRealCost

(***************************************************************************)
(* C18, amended: on any finite graph every vertex in the frontier has a    *)
(* g_score entry that is a real cost, so the index g_score[current] and    *)
(* the sum g_score[current] + 1 of line 136 are always defined; the one    *)
(* sum that can overflow is tentative_gscore + distance(neighbor, goal) of *)
(* line 137, and only for a neighbor whose distance is above usize::MAX -  *)
(* tentative_gscore: then a build with overflow checks panics and a build  *)
(* without them goes on with the wrapped score.                            *)
(***************************************************************************)
AstarLookupsDefined ==
    /\ FrontierHasRealCost
    /\ pc \notin {"panic_index_136", "panic_add_136"}
    /\ pc = "panic_add_137" =>
          /\ build = "debug"
          /\ \E current \in closed : \E neighbor \in Range(nbrs[current]) :
                ~usize_fits(g_score[current] + 1, dist[neighbor])
    /\ \A v \in closed : \A w \in Range(nbrs[v]) :
          (build = "debug" /\ w \notin closed
              /\ ~usize_fits(g_score[v] + 1, dist[w])) => pc = "panic_add_137"

\* A build without overflow checks has pushed a vertex at distance
\* usize::MAX - 1 with a wrapped score and has expanded it since.
AstarWrappedWitness ==
    /\ build = "release"
    /\ pc = "done"
    /\ Cardinality(closed) >= 3
    /\ \E v \in closed : dist[v] = usize_MAX - 1 /\ f_score[v] < dist[v]

(***************************************************************************)
(* astar_search on the obstacle-free grid: neighbors() is neigh4 and       *)
(* distance() is manhattan_distance.                                       *)
(***************************************************************************)
GridGoals(s) ==
    {g \in {Cartesian(s.x + dx, s.y + dy) :
                dx \in (0 - GridMax)..GridMax, dy \in (0 - GridMax)..GridMax} :
        usize_number(manhattan_distance(s, g, "debug")) <= GridMax}

GridInit ==
    /\ impl = "grid"
    /\ start \in {Cartesian(0, 0), Cartesian(1, 0 - 1)}
    /\ goal \in GridGoals(start)
    /\ NoTable
    /\ AstarEntry(start)
    /\ NoBfs /\ NoCount /\ NoCoord

\* The grid is unbounded: every expansion pushes the four neighbours' entries
\* and pops one, so `open' never runs empty and the None return of line 147
\* is not a step of a grid search.
GridNext == astar_found \/ astar_expand

SpecGrid == GridInit /\ [][GridNext]_vars

(***************************************************************************)
(* C2: on the obstacle-free grid with the 4 axis-adjacent cells as         *)
(* neighbors and the Manhattan distance, for every start and goal (start   *)
(* = goal included) astar_search returns a path whose vertex count is      *)
(* manhattan_distance(start, goal) + 1.                                    *)
(***************************************************************************)
GridPathLength ==
    /\ pc \in {"astar", "done"}
    /\ pc = "astar" => open # EmptyBag
    /\ pc = "done" =>
          /\ result # None
          /\ Len(result[1]) =
                usize_number(manhattan_distance(start, goal, build)) + 1

\* A search that had to turn a corner, and one with start = goal.
GridPathWitness ==
    /\ pc = "done"
    /\ result # None
    /\ Len(result[1]) = GridMax + 1
    /\ start.x # goal.x
    /\ start.y # goal.y


(***************************************************************************)
(* bfs_search_all on every table graph of the bounds, with the neighbors   *)
(* of a vertex listed in ascending or in descending order.  The search    *)
(* only tests distance() against 0, so the distances are 0 or 1.           *)
(***************************************************************************)
Reverse(q) == [i \in 1..Len(q) |-> q[Len(q) + 1 - i]]

BfsTables == Tables \cup {[v \in Vertices |-> Reverse(n[v])] : n \in Tables}

BfsInit ==
    /\ impl = "table"
    /\ start = 1
    /\ nbrs \in BfsTables
    /\ goal \in Goals(nbrs, start)
    /\ dist \in Distances(nbrs, start, goal, 1)
    /\ BfsEntry(start)
    /\ NoAstar /\ NoCount /\ NoCoord

SpecBfs == BfsInit /\ [][BfsNext]_vars

\* Every vertex sequence of at most NumVertices vertices.
AllSeqs == UNION {[1..k -> Vertices] : k \in 1..NumVertices}

IsWalk(p) == \A i \in 1..(Len(p) - 1) : p[i + 1] \in Range(nbrs[p[i]])

\* The paths of the graph from start that meet a vertex at distance 0 from
\* goal only at their end.
PathsToZero ==
    {p \in AllSeqs :
        /\ p[1] = start
        /\ IsWalk(p)
        /\ dist[p[Len(p)]] = 0
        /\ \A i \in 1..(Len(p) - 1) : dist[p[i]] # 0}

ZeroOnlyAtGoal == \A v \in Vertices : dist[v] = 0 <=> v = goal

(***************************************************************************)
(* C5, as stated: on every finite acyclic graph in which goal is reachable *)
(* from start, bfs_search_all returns at least one path, and every         *)
(* returned path has goal as its first element and start as its last.      *)
(***************************************************************************)
BfsPathsFromGoalToStart ==
    (pc = "done" /\ ~Cyclic /\ goal \in Reachable) =>
        /\ Len(result) >= 1
        /\ \A i \in 1..Len(result) :
              /\ result[i][1] = goal
              /\ result[i][Len(result[i])] = start

(***************************************************************************)
(* C5, amended: on every finite acyclic graph in which a vertex at         *)
(* distance 0 from goal is reachable from start, bfs_search_all returns at *)
(* least one path, and every returned path has a vertex at distance 0 from *)
(* goal as its first element (goal itself when the distance is 0 only at   *)
(* goal) and start as its last element.                                    *)
(***************************************************************************)
BfsPathsFromZeroToStart ==
    (~Cyclic /\ ZeroReachable) =>
        /\ pc \in {"bfs", "done"}
        /\ pc = "done" =>
              /\ Len(result) >= 1
              /\ \A i \in 1..Len(result) :
                    /\ dist[result[i][1]] = 0
                    /\ ZeroOnlyAtGoal => result[i][1] = goal
                    /\ result[i][Len(result[i])] = start

\* Two paths are returned, one of them ending at a vertex other than goal.
BfsPathsWitness ==
    /\ pc = "done"
    /\ ~Cyclic
    /\ goal \in Reachable
    /\ Len(result) >= 2
    /\ \E i \in 1..Len(result) : result[i][1] # goal
    /\ \E i \in 1..Len(result) : result[i][1] = goal /\ Len(result[i]) >= 3

(***************************************************************************)
(* C6: bfs_search_all returns all paths from start to goal: on every       *)
(* finite acyclic graph each distinct path from start that meets a vertex  *)
(* at distance 0 only at its end appears, goal-to-start, in the result.    *)
(***************************************************************************)
BfsReturnsEveryPath ==
    (pc = "done" /\ ~Cyclic) =>
        \A p \in PathsToZero : Reverse(p) \in Range(result)

(***************************************************************************)
(* C8: on every finite acyclic graph in which no vertex at distance 0 from *)
(* goal is reachable from start, bfs_search_all terminates and returns an  *)
(* empty list.  Termination is shown by a rank that every loop iteration   *)
(* lowers: the number of walks still to be taken from the queued vertices. *)
(***************************************************************************)
RECURSIVE BfsWeight(_)
RECURSIVE BfsWeightSum(_, _)
BfsWeightSum(q, i) ==
    IF i > Len(q) THEN 0 ELSE BfsWeight(q[i]) + BfsWeightSum(q, i + 1)

BfsWeight(v) == IF dist[v] = 0 THEN 1 ELSE 1 + BfsWeightSum(nbrs[v], 1)

BfsRank == BfsWeightSum(queue, 1) + (IF pc = "bfs" THEN 1 ELSE 0)

BfsTerminatesEmpty ==
    /\ [][(~Cyclic /\ ~ZeroReachable) => BfsRank' < BfsRank]_vars
    /\ []((~Cyclic /\ ~ZeroReachable) =>
            /\ pc \in {"bfs", "done"}
            /\ pc = "bfs" => ENABLED BfsNext
            /\ pc = "done" => (queue = <<>> /\ result = <<>>))

BfsEmptyWitness ==
    /\ ~Cyclic
    /\ ~ZeroReachable
    /\ pc = "done"
    /\ result = <<>>
    /\ \E v \in DOMAIN expanded : expanded[v] >= 2

(***************************************************************************)
\* The vertices that u reaches (u included) along vertices that are not at
\* distance 0 from goal: the vertices the search expands once u is queued.
RECURSIVE LiveFrom(_)
LiveFrom(S) ==
    LET L == {v \in S : dist[v] # 0}
        T == L \cup {w \in Successors(L) : dist[w] # 0}
    IN  IF T = L THEN L ELSE LiveFrom(T)

OnLiveCycle(v) == dist[v] # 0 /\ v \in LiveFrom(Range(nbrs[v]))

ReachesLiveCycle(u) == \E v \in LiveFrom({u}) : OnLiveCycle(v)

(***************************************************************************)
(* C11, as stated: whenever the graph has a cycle reachable from start,    *)
(* bfs_search_all does not terminate, a cycle through a vertex at distance *)
(* 0 from goal included: the call never returns.                           *)
(***************************************************************************)
BfsNeverReturnsOnCycle ==
    Cyclic => pc # "done"

(***************************************************************************)
(* C11, amended: whenever start reaches a cycle along vertices that are    *)
(* not at distance 0 from goal, and the cycle has no such vertex either,   *)
(* bfs_search_all does not terminate: the queue always holds a vertex that *)
(* leads to the cycle, so the loop never exits (or reconstruct_path loops  *)
(* forever on a cyclic prev map).                                          *)
(***************************************************************************)
BfsNeverReturnsOnLiveCycle ==
    ReachesLiveCycle(start) =>
        /\ pc \in {"bfs", "hang"}
        /\ pc = "bfs" => \E i \in 1..Len(queue) : ReachesLiveCycle(queue[i])

\* The search has gone round a cycle and has also recorded a path.
BfsLiveCycleWitness ==
    /\ ReachesLiveCycle(start)
    /\ pc = "bfs"
    /\ Len(result) >= 1
    /\ \E v \in DOMAIN expanded : expanded[v] >= 2

(* C14: on a finite acyclic graph the number of paths bfs_search_all       *)
(* returns is the number of times a vertex at distance 0 is popped from    *)
(* the queue, which is the number of distinct walks from start that end at *)
(* their first vertex at distance 0; the result is not de-duplicated.      *)
(***************************************************************************)
BfsCountsZeroPops ==
    /\ [][(~Cyclic /\ pc = "bfs" /\ queue # <<>>) =>
            /\ queue' # queue
            /\ Len(result') =
                 Len(result) + (IF dist[Head(queue)] = 0 THEN 1 ELSE 0)]_vars
    /\ []((pc = "done" /\ ~Cyclic) => Len(result) = Cardinality(PathsToZero))

\* The same vertex sequence is returned twice.
BfsDuplicateWitness ==
    /\ pc = "done"
    /\ ~Cyclic
    /\ Len(result) = Cardinality(PathsToZero)
    /\ \E i, j \in 1..Len(result) : i # j /\ result[i] = result[j]

(***************************************************************************)
(* count_paths on every table graph of the bounds                          *)
(***************************************************************************)
CountInit ==
    /\ impl = "table"
    /\ start = 1
    /\ goal = 1
    /\ nbrs \in Tables
    /\ dist = [v \in Vertices |-> 0]
    /\ CountEntry(start)
    /\ NoAstar /\ NoBfs /\ NoCoord

SpecCount == CountInit /\ [][CountNext]_vars

Leaf(v) == nbrs[v] = <<>>

\* The walks from v that end at a leaf.
WalksToLeaf(v) ==
    {p \in AllSeqs : p[1] = v /\ IsWalk(p) /\ Leaf(p[Len(p)])}

\* Every vertex but start has exactly one predecessor, start has none.
IsTree ==
    /\ ~Cyclic
    /\ \A v \in Reachable :
          Cardinality({u \in Reachable : v \in Range(nbrs[u])})
              = (IF v = start THEN 0 ELSE 1)

(***************************************************************************)
(* C7: for every finite acyclic neighbor relation count_paths(node) is the *)
(* number of distinct walks from node to a leaf, a leaf counted once per   *)
(* walk that reaches it; count_paths of a leaf is 1, and on a tree it is   *)
(* the number of reachable leaves.                                         *)
(***************************************************************************)
CountPathsCountsWalks ==
    (~Cyclic) =>
        /\ pc \in {"count", "done"}
        /\ pc = "count" => ENABLED CountNext
        /\ pc = "done" =>
              /\ result = Cardinality(WalksToLeaf(start))
              /\ Leaf(start) => result = 1
              /\ IsTree => result = Cardinality({v \in Reachable : Leaf(v)})

\* Two branches come together again: the leaf below is counted twice.
CountPathsWitness ==
    /\ ~Cyclic
    /\ pc = "done"
    /\ result = 2
    /\ Cardinality({v \in Reachable : Leaf(v)}) = 1

(***************************************************************************)
(* C17: within one count_paths call on a finite acyclic structure the      *)
(* neighbors of each distinct vertex are generated at most once: a vertex  *)
(* reached again through another branch takes its count from the memo      *)
(* table, and the memo value of a vertex is the sum of its neighbors'      *)
(* counts, or 1 for a leaf.                                                *)
(***************************************************************************)
RECURSIVE MemoSum(_, _)
MemoSum(ns, i) ==
    IF i > Len(ns) THEN 0 ELSE nodes[ns[i]] + MemoSum(ns, i + 1)

CountMemoizedOnce ==
    /\ []((~Cyclic) =>
            /\ \A v \in DOMAIN expanded : expanded[v] <= 1
            /\ \A v \in DOMAIN nodes :
                  /\ Range(nbrs[v]) \subseteq DOMAIN nodes
                  /\ nodes[v] = (IF Leaf(v) THEN 1 ELSE MemoSum(nbrs[v], 1)))
    /\ [][(~Cyclic /\ pc = "count" /\ Top.at = "enter"
              /\ Top.node \in DOMAIN nodes) =>
            /\ expanded' = expanded
            /\ nodes' = nodes
            /\ IF Len(stack) = 1
               THEN pc' = "done" /\ result' = nodes[Top.node]
               ELSE /\ Len(stack') = Len(stack) - 1
                    /\ stack'[Len(stack')].paths
                         = stack[Len(stack')].paths + nodes[Top.node]]_vars

\* Two branches reach the same inner vertex; its neighbors were generated
\* once and the count of start is complete.
CountMemoWitness ==
    /\ ~Cyclic
    /\ pc = "done"
    /\ DOMAIN nodes = Reachable
    /\ \E v \in Reachable :
          /\ ~Leaf(v)
          /\ Cardinality({u \in Reachable : v \in Range(nbrs[u])}) >= 2
          /\ expanded[v] = 1

(***************************************************************************)
(* C19: if the neighbor relation has a cycle reachable from node,          *)
(* count_paths(node) never returns: a vertex enters the memo table only    *)
(* after all its neighbors are counted, so no vertex that leads to the     *)
(* cycle is ever in the table and the recursion goes deeper without bound, *)
(* re-entering a vertex that is still being counted.                       *)
(***************************************************************************)
LeadsToCycle(v) ==
    \E w \in ReachFrom(nbrs, {v}) : w \in ReachFrom(nbrs, Range(nbrs[w]))

\* The recursion is about to go deeper than the model follows it.
CountCutOff ==
    /\ Len(stack) = MaxDepth
    /\ Top.at = "loop"
    /\ Top.i <= Len(Top.ns)

CountNeverReturnsOnCycle ==
    Cyclic =>
        /\ pc = "count"
        /\ result = None
        /\ stack # <<>>
        /\ \A v \in DOMAIN nodes : ~LeadsToCycle(v)
        /\ \E i \in 1..Len(stack) :
              \/ stack[i].at = "enter" /\ LeadsToCycle(stack[i].node)
              \/ /\ stack[i].at = "loop"
                 /\ \E k \in stack[i].i..Len(stack[i].ns) :
                       LeadsToCycle(stack[i].ns[k])
        /\ ENABLED CountNext \/ CountCutOff

\* The recursion has re-entered a vertex that is still being counted.
CountReentryWitness ==
    /\ Cyclic
    /\ CountCutOff
    /\ \E i \in 1..Len(stack) : \E j \in 1..Len(stack) :
          i < j /\ stack[i].node = stack[j].node
    /\ nodes # EmptyMap

(***************************************************************************)
(* a + b and &a + &b on coordinates around 0 and around both ends of i32   *)
(***************************************************************************)
CoordValues ==
    ((0 - CoordSpan)..CoordSpan)
        \cup {I32_MIN + k : k \in 0..CoordSpan}
        \cup {I32_MAX - k : k \in 0..CoordSpan}

CoordInit ==
    /\ a \in {Cartesian(x, y) : x \in CoordValues, y \in CoordValues}
    /\ b \in {Cartesian(x, y) : x \in CoordValues, y \in CoordValues}
    /\ build \in {"debug", "release"}
    /\ sum_owned = None
    /\ sum_ref = None
    /\ pc = "add"
    /\ result = None
    /\ expanded = EmptyMap
    /\ impl = "grid" /\ start = Cartesian(0, 0) /\ goal = Cartesian(0, 0)
    /\ NoTable /\ NoAstar /\ NoBfs /\ NoCount

SpecCoord == CoordInit /\ [][CoordNext]_vars

SumsFit == i32_fits(a.x, b.x) /\ i32_fits(a.y, b.y)

\* v is the componentwise sum of a and b over the integers; a sum outside
\* i32 is the value of no Cartesian.
IsComponentwiseSum(v) ==
    /\ ~v.panic
    /\ SumsFit
    /\ v.x = a.x + b.x
    /\ v.y = a.y + b.y

\* x + y modulo 2^32 as an i32: a sum past i32::MAX counts on from i32::MIN,
\* a sum below i32::MIN counts down from i32::MAX.
WrappedSum(x, y) ==
    IF i32_fits(x, y) THEN x + y
    ELSE IF y >= 0 THEN I32_MIN + ((y - (I32_MAX - x)) - 1)
    ELSE I32_MAX + ((y + (x - I32_MIN)) + 1)

(***************************************************************************)
(* C9, as stated: for all Cartesian values a and b, &a + &b and a + b give *)
(* the same result, and that result is the componentwise sum               *)
(* (a.x + b.x, a.y + b.y).                                                 *)
(***************************************************************************)
AddIsComponentwiseSum ==
    pc = "done" =>
        /\ sum_ref = sum_owned
        /\ IsComponentwiseSum(sum_owned[1])

(***************************************************************************)
(* C9, amended: for all Cartesian values a and b, &a + &b and a + b behave *)
(* the same, and when a.x + b.x and a.y + b.y both lie in the i32 range    *)
(* the result is the componentwise sum; otherwise both panic in a build    *)
(* with overflow checks and both wrap around modulo 2^32 in one without.   *)
(***************************************************************************)
AddIsComponentwiseSumInRange ==
    pc = "done" =>
        /\ sum_ref = sum_owned
        /\ SumsFit => IsComponentwiseSum(sum_owned[1])
        /\ (~SumsFit /\ build = "debug") => sum_owned[1].panic
        /\ (~SumsFit /\ build = "release") =>
              /\ ~sum_owned[1].panic
              /\ sum_owned[1].x = WrappedSum(a.x, b.x)
              /\ sum_owned[1].y = WrappedSum(a.y, b.y)

AddWitness ==
    /\ pc = "done"
    /\ SumsFit
    /\ a.x = I32_MAX - 1 /\ b.x = 1
    /\ a.y = 0 - 1 /\ b.y = I32_MIN + 1
    /\ sum_owned[1] = Value(Cartesian(I32_MAX, I32_MIN))

(***************************************************************************)
(* a.manhattan_distance(&b) on coordinates around 0, around both ends of   *)
(* the 31-bit range, whose differences all fit in i32, and around both     *)
(* ends of i32, in both builds.                                            *)
(***************************************************************************)
HalfRange == I32_MAX \div 2

DistanceValues ==
    CoordValues
        \cup {HalfRange - k : k \in 0..CoordSpan}
        \cup {HalfRange + k : k \in 1..CoordSpan}
        \cup {((0 - HalfRange) - 1) + k : k \in 0..CoordSpan}
        \cup {((0 - HalfRange) - 1) - k : k \in 1..CoordSpan}

DistanceInit ==
    /\ a \in {Cartesian(x, y) : x \in DistanceValues, y \in DistanceValues}
    /\ b \in {Cartesian(x, y) : x \in DistanceValues, y \in DistanceValues}
    /\ build \in {"debug", "release"}
    /\ sum_owned = None
    /\ sum_ref = None
    /\ pc = "distance"
    /\ result = None
    /\ expanded = EmptyMap
    /\ impl = "grid" /\ start = Cartesian(0, 0) /\ goal = Cartesian(0, 0)
    /\ NoTable /\ NoAstar /\ NoBfs /\ NoCount

SpecDistance == DistanceInit /\ [][DistanceNext]_vars

\* The bounded range of the claim: both coordinates in -2^30 .. 2^30 - 1,
\* the largest range symmetric in sign whose differences all fit in i32.
InBoundedRange(c) ==
    /\ (0 - HalfRange) - 1 <= c.x /\ c.x <= HalfRange
    /\ (0 - HalfRange) - 1 <= c.y /\ c.y <= HalfRange

\* r is the number x + y, for 0 <= x, y <= i32::MAX.
IsSumOf(r, x, y) ==
    /\ ~r.panic
    /\ r.ext = 0
    /\ IF y <= I32_MAX - x
       THEN r.carry = 0 /\ r.low = x + y
       ELSE r.carry = 1 /\ r.low = (y - (I32_MAX - x)) - 1

(***************************************************************************)
(* C20: for all Cartesian points a and b whose coordinates lie in a        *)
(* bounded i32 range, manhattan_distance(a, b) equals                      *)
(* |a.x - b.x| + |a.y - b.y|, is non-negative, is symmetric in a and b,    *)
(* and is 0 exactly when a = b.                                            *)
(***************************************************************************)
ManhattanDistanceIsL1 ==
    (pc = "done" /\ InBoundedRange(a) /\ InBoundedRange(b)) =>
        /\ IsSumOf(result[1], abs(a.x - b.x), abs(a.y - b.y))
        /\ result[1].carry >= 0 /\ result[1].low >= 0
        /\ result[1] = manhattan_distance(b, a, build)
        /\ (result[1].carry = 0 /\ result[1].low = 0) <=> (a = b)

ManhattanDistanceWitness ==
    /\ pc = "done"
    /\ InBoundedRange(a) /\ InBoundedRange(b)
    /\ a = Cartesian(HalfRange, (0 - HalfRange) - 1)
    /\ b = Cartesian((0 - HalfRange) - 1, HalfRange)
    /\ result[1] = DistanceValue(0, 1, I32_MAX - 1)

====
